---- MODULE Spec2Model ----
(***************************************************************************)
(* A model of confluence_tool/confluence_api.py (class ConfluenceAPI):     *)
(*   - iterate / findPages      the paginated query iterator               *)
(*   - resolveCQL               the page-reference resolver                *)
(*   - getPagesWithProperties   the page-property filter                   *)
(*   - copyPage                 the recursive page-tree synchronizer       *)
(* Each component has its own specification (SpecIterate, SpecResolve,     *)
(* SpecFilter, SpecSync); the variables of the other components stay at    *)
(* their idle values.  SpecStream runs getPagesWithProperties over the     *)
(* pages of iterate (line 492).                                            *)
(***************************************************************************)
EXTENDS Integers, Sequences, FiniteSets, TLC

VARIABLES
    \* ---- iterate (lines 322-354) and the remote collection it pages over
    collection,   \* number of items the remote query matches (items are 1..collection)
    remoteLimit,  \* largest page the remote serves; it reports min(requested, remoteLimit)
    kwargs,       \* the caller's keyword arguments [start, limit] (limit -1: none given)
    start,        \* local `start`
    maxResults,   \* local `maxResults`
    result,       \* local `result`: the last response of findPages
    pos,          \* number of items of result['results'] the for loop has passed
    ipc,          \* position of the generator
    yielded,      \* the items yielded so far, in order
    requests,     \* the page requests issued so far, each with the response's size
    \* ---- resolveCQL (lines 356-399)
    given,        \* the value passed as `ref`: a string or a number
    ref,          \* the local `ref` after lines 384-385: a string, as the sequence
                  \* of its characters
    cql,          \* the string returned
    again,        \* what resolveCQL returns for the string it returned
    rpc,          \* "call" before the call, "done" after it, "again" after the second
    \* ---- getPagesWithProperties (lines 452-493)
    page_prop_filter,   \* the argument: none, one item, or a list of items
    page_prop_filters,  \* the list of name/cmp/value records built from it
    cmp,                \* the enclosing function's local `cmp` ("unbound" until assigned)
    props,              \* the page's properties: name -> absent, scalar or collection
    passed,             \* what page_prop_filterer(page) gave: "pass", "drop" or the error
    fpc,                \* position in getPagesWithProperties
    \* ---- line 492: the loop of getPagesWithProperties over filter(...)
    marked,       \* the items of the collection whose property p is "x" (else "y")
    tested,       \* number of pages filter() has applied page_prop_filterer to
    lookups,      \* the items whose properties were looked up, in order
    filtered,     \* the list filter() builds
    out,          \* the pages yielded to the caller so far, in order
    gpc,          \* position in line 492
    \* ---- copyPage (lines 138-198) and the remote content store it works on
    content,      \* the remote's pages: id -> [title, parent, body, version]
    args,         \* the arguments of the top-level copyPage call
    stack,        \* the frames of the nested copyPage calls, the innermost last
    calls,        \* the remote calls issued so far, in order
    outcome,      \* "running", "returned", or the error that ended the call
    returned,     \* what the top-level call returned: a page id, or 0 for None
    failure,      \* the remote call that failed: its number, the error raised,
                  \* whether the remote was out of order, the content then
    \* ---- the caller of copyPage, who may call it again with the same arguments
    run,          \* 1 during and after the first call, 2 from the second call on
    first         \* how the first call ended: its outcome, the number of remote
                  \* calls it made, the pages the remote held then

ivars == <<collection, remoteLimit, kwargs, start, maxResults, result, pos, ipc,
           yielded, requests>>

rvars == <<given, ref, cql, again, rpc>>

fvars == <<page_prop_filter, page_prop_filters, cmp, props, passed, fpc>>

gvars == <<marked, tested, lookups, filtered, out, gpc>>

svars == <<content, args, stack, calls, outcome, returned, failure>>

hvars == <<run, first>>

vars == <<ivars, rvars, fvars, gvars, svars, hvars>>

\* what the actions of one component leave alone
exceptIterate == <<rvars, fvars, gvars, svars, hvars>>
exceptResolve == <<ivars, fvars, gvars, svars, hvars>>
exceptFilter  == <<ivars, rvars, gvars, svars, hvars>>
exceptSync    == <<ivars, rvars, fvars, gvars, hvars>>

Min(a, b) == IF a <= b THEN a ELSE b
Max(a, b) == IF a >= b THEN a ELSE b

(***************************************************************************)
(* Bounds of the model.                                                    *)
(***************************************************************************)
MaxTotal  == 51   \* the remote collection holds 0..MaxTotal items
MaxLimit  == 52   \* the caller's limit is absent or 0..MaxLimit
MaxStart  == 1    \* the caller's start is 0..MaxStart
MaxCapCut == 1    \* the remote serves pages of PageSize-MaxCapCut..PageSize items

(***************************************************************************)
(* Program constants.                                                      *)
(***************************************************************************)
PageSize == 25            \* limit = 25 # confluence max
NoLimit  == 1000000000    \* stands for 10000000000, which exceeds TLC's integers;
                          \* every collection of the model is far smaller than either

(***************************************************************************)
(* ITERATE: the paginated query iterator (lines 312-354).                  *)
(***************************************************************************)

\* The remote's search operation: the items of the collection from offset st on,
\* at most min(lim, remoteLimit) of them, with the page limit it applied.
RemoteSearch(st, lim) ==
    LET eff == Min(lim, remoteLimit)
        n   == Max(0, Min(eff, collection - st))
    IN  [results |-> [i \in 1..n |-> st + i], size |-> n, limit |-> eff]

\* findPages(cql=..., start=..., limit=...): pageSpec is empty, the query goes
\* to the remote verbatim.
findPages(kw) == RemoteSearch(kw.start, kw.limit)

\* `if maxResults <= 0: break` (lines 344 and 347)
LimitReachedStrict(m) == m < 0
LimitReached(m) == m <= 0

\* `if result['size'] < result['limit']: break` (line 351)
LastPageByRequest(r) == r.size < PageSize
LastPageOrFull(r) == r.size <= r.limit
LastPage(r) == r.size < r.limit

IdleIterate ==
    /\ collection = 0
    /\ remoteLimit = PageSize
    /\ kwargs = [start |-> 0, limit |-> -1]
    /\ start = 0
    /\ maxResults = 0
    /\ result = [results |-> <<>>, size |-> 0, limit |-> 0]
    /\ pos = 0
    /\ ipc = "idle"
    /\ yielded = <<>>
    /\ requests = <<>>

IdleResolve ==
    /\ given = [str |-> TRUE, text |-> <<>>, num |-> 0]
    /\ ref = <<>>
    /\ cql = <<>>
    /\ again = <<>>
    /\ rpc = "idle"

IdleFilter ==
    /\ page_prop_filter = [kind |-> "none", items |-> <<>>]
    /\ page_prop_filters = <<>>
    /\ cmp = "unbound"
    /\ props = <<>>
    /\ passed = "none"
    /\ fpc = "idle"

IdleStream ==
    /\ marked = {}
    /\ tested = 0
    /\ lookups = <<>>
    /\ filtered = <<>>
    /\ out = <<>>
    /\ gpc = "idle"

IdleSync ==
    /\ content = <<>>
    /\ args = <<>>
    /\ stack = <<>>
    /\ calls = <<>>
    /\ outcome = "idle"
    /\ returned = 0
    /\ failure = [at |-> 0, error |-> "none", injected |-> FALSE, content |-> <<>>]
    /\ run = 1
    /\ first = [outcome |-> "none", ncalls |-> 0, pages |-> {}]

InitIterate ==
    /\ IdleResolve
    /\ IdleFilter
    /\ IdleStream
    /\ IdleSync
    /\ collection \in 0..MaxTotal
    /\ remoteLimit \in (PageSize - MaxCapCut)..PageSize
    /\ kwargs \in [start : 0..MaxStart, limit : -1..MaxLimit]
    /\ start = 0
    /\ maxResults = 0
    /\ result = [results |-> <<>>, size |-> 0, limit |-> 0]
    /\ pos = 0
    /\ ipc = "new"
    /\ yielded = <<>>
    /\ requests = <<>>

\* lines 323-333: the defaults and the locals, on the first next()
IterBegin ==
    /\ ipc = "new"
    /\ start' = kwargs.start
    /\ maxResults' = IF kwargs.limit < 0 THEN NoLimit ELSE kwargs.limit
    /\ ipc' = "fetch"
    /\ UNCHANGED <<collection, remoteLimit, kwargs, result, pos, yielded, requests, exceptIterate>>

\* lines 336-338: one page request
IterFetch ==
    /\ ipc = "fetch"
    /\ result' = findPages([start |-> start, limit |-> PageSize])
    /\ requests' = Append(requests, [start |-> start, limit |-> PageSize,
                                     size |-> result'.size, rlimit |-> result'.limit])
    /\ pos' = 0
    /\ ipc' = "for"
    /\ UNCHANGED <<collection, remoteLimit, kwargs, start, maxResults, yielded, exceptIterate>>

\* lines 340-342: the next item of the page is yielded
IterYield ==
    /\ ipc = "for"
    /\ pos < Len(result.results)
    /\ yielded' = Append(yielded, result.results[pos + 1])
    /\ ipc' = "yielded"
    /\ UNCHANGED <<collection, remoteLimit, kwargs, start, maxResults, result, pos,
                   requests, exceptIterate>>

\* lines 343-345: the consumer asks for the next item
IterResume ==
    /\ ipc = "yielded"
    /\ maxResults' = maxResults - 1
    /\ pos' = pos + 1
    /\ ipc' = IF LimitReached(maxResults') THEN "after" ELSE "for"
    /\ UNCHANGED <<collection, remoteLimit, kwargs, start, result, yielded, requests, exceptIterate>>

\* lines 347-352: after the for loop (exhausted, or left by break)
IterAfterFor ==
    /\ \/ ipc = "after"
       \/ ipc = "for" /\ pos = Len(result.results)
    /\ IF LimitReached(maxResults)
       THEN /\ ipc' = "done"
            /\ start' = start
       ELSE /\ start' = start + PageSize
            /\ ipc' = IF LastPage(result) THEN "done" ELSE "fetch"
    /\ UNCHANGED <<collection, remoteLimit, kwargs, maxResults, result, pos, yielded,
                   requests, exceptIterate>>

NextIterate == IterBegin \/ IterFetch \/ IterYield \/ IterResume \/ IterAfterFor

SpecIterate == InitIterate /\ [][NextIterate]_vars

(***************************************************************************)
(* RESOLVECQL: the reference resolver (lines 356-399).  A string is the    *)
(* sequence of its characters.                                             *)
(***************************************************************************)
Upper == {"A", "B", "C", "D", "E", "F", "G", "H", "I", "J", "K", "L", "M",
          "N", "O", "P", "Q", "R", "S", "T", "U", "V", "W", "X", "Y", "Z"}
Digit == {"0", "1", "2", "3", "4", "5", "6", "7", "8", "9"}
NL == "\n"

\* the characters references are built from: an uppercase letter, a lowercase
\* letter, the colon, a digit, a blank and a line break
RefChars == {"K", "t", ":", "7", " ", NL}

RECURSIVE PrefixLen(_, _)
\* length of the longest prefix of s whose characters are all in set
PrefixLen(s, set) ==
    IF s # <<>> /\ Head(s) \in set THEN 1 + PrefixLen(Tail(s), set) ELSE 0

RECURSIVE PrefixLenNot(_, _)
\* length of the longest prefix of s with no character in set
PrefixLenNot(s, set) ==
    IF s # <<>> /\ Head(s) \notin set THEN 1 + PrefixLenNot(Tail(s), set) ELSE 0

Drop(s, n) == SubSeq(s, n + 1, Len(s))
Take(s, n) == SubSeq(s, 1, n)

\* `$` without re.MULTILINE: at the end of the string, or just before a line
\* break that is the string's last character
AtEnd(s) == s = <<>> \/ s = <<NL>>

\* `(.*)$` on the rest r of the string: `.` matches anything but a line break
DotStarEndTillColon(r) ==
    LET n == PrefixLenNot(r, {NL, ":"})
    IN  [ok |-> AtEnd(Drop(r, n)), group |-> Take(r, n)]
DotStarEnd(r) ==
    LET n == PrefixLenNot(r, {NL})
    IN  [ok |-> AtEnd(Drop(r, n)), group |-> Take(r, n)]

\* `(\d+)$`
DigitsEndSingle(r) ==
    LET n == IF r # <<>> /\ Head(r) \in Digit THEN 1 ELSE 0
    IN  [ok |-> n >= 1 /\ AtEnd(Drop(r, n)), group |-> Take(r, n)]
DigitsEnd(r) ==
    LET n == PrefixLen(r, Digit)
    IN  [ok |-> n >= 1 /\ AtEnd(Drop(r, n)), group |-> Take(r, n)]

NoMatch == [ok |-> FALSE, mob |-> <<>>]

\* SPACE_PAGE_REF = re.compile(r'^([A-Z]*):(.*)$')
SPACE_PAGE_REF(s) ==
    LET k == PrefixLen(s, Upper)
    IN  IF k < Len(s) /\ s[k + 1] = ":" /\ DotStarEnd(Drop(s, k + 1)).ok
        THEN [ok |-> TRUE, mob |-> <<Take(s, k), DotStarEnd(Drop(s, k + 1)).group>>]
        ELSE NoMatch

\* PAGE_REF = re.compile(r'^:(.*)$')
PAGE_REF(s) ==
    IF s # <<>> /\ s[1] = ":" /\ DotStarEnd(Tail(s)).ok
    THEN [ok |-> TRUE, mob |-> <<DotStarEnd(Tail(s)).group>>]
    ELSE NoMatch

\* PAGE_ID = re.compile(r'^(\d+)$')
PAGE_ID(s) ==
    IF DigitsEnd(s).ok THEN [ok |-> TRUE, mob |-> <<DigitsEnd(s).group>>] ELSE NoMatch

ApiContent == <<"a", "p", "i", "/", "c", "o", "n", "t", "e", "n", "t", "/">>

\* PAGE_URI = re.compile(r'api/content/(\d+)$'), searched anywhere in the string
PAGE_URI(s) ==
    LET hits == {i \in 1..Len(s) :
                    /\ i + Len(ApiContent) - 1 <= Len(s)
                    /\ SubSeq(s, i, i + Len(ApiContent) - 1) = ApiContent
                    /\ DigitsEnd(Drop(s, i + Len(ApiContent) - 1)).ok}
    IN  IF hits # {}
        THEN LET i == CHOOSE h \in hits : \A g \in hits : h <= g
             IN  [ok |-> TRUE,
                  mob |-> <<DigitsEnd(Drop(s, i + Len(ApiContent) - 1)).group>>]
        ELSE NoMatch

\* "space = {} AND title  = \"{}\"".format(key, title)
FormatSpaceTitle(key, title) ==
    <<"s", "p", "a", "c", "e", " ", "=", " ">> \o key
        \o <<" ", "A", "N", "D", " ", "t", "i", "t", "l", "e", " ", " ", "=", " ", "\"">>
        \o title \o <<"\"">>

\* "title  = \"{}\"".format(title)
FormatTitle(title) ==
    <<"t", "i", "t", "l", "e", " ", " ", "=", " ", "\"">> \o title \o <<"\"">>

\* "ID  = {}".format(digits)
FormatIDColon(digits) == <<"I", "D", ":">> \o digits
FormatID(digits) == <<"I", "D", " ", " ", "=", " ">> \o digits

\* resolveCQL(ref), ref a string: the rules in the order of lines 387-399
resolveCQL(s) ==
    IF SPACE_PAGE_REF(s).ok
    THEN FormatSpaceTitle(SPACE_PAGE_REF(s).mob[1], SPACE_PAGE_REF(s).mob[2])
    ELSE IF PAGE_REF(s).ok THEN FormatTitle(PAGE_REF(s).mob[1])
    ELSE IF PAGE_ID(s).ok THEN FormatID(PAGE_ID(s).mob[1])
    ELSE IF PAGE_URI(s).ok THEN FormatID(PAGE_URI(s).mob[1])
    ELSE s

MaxRefLen  == 4    \* references have 0..MaxRefLen characters
MaxUriTail == 2    \* ... or up to one character, api/content/, 0..MaxUriTail characters
MaxRefInt  == 20   \* a reference that is a number is 0..MaxRefInt

RefStrings == UNION {[1..n -> RefChars] : n \in 0..MaxRefLen}

UriRefs ==
    {p \o ApiContent \o t : p \in UNION {[1..n -> RefChars] : n \in 0..1},
                            t \in UNION {[1..n -> RefChars] : n \in 0..MaxUriTail}}

\* the values a caller passes as `ref`
StringValue(s) == [str |-> TRUE, text |-> s, num |-> 0]
NumberValue(n) == [str |-> FALSE, text |-> <<>>, num |-> n]
RefValues ==
    {StringValue(s) : s \in RefStrings \cup UriRefs}
    \cup {NumberValue(n) : n \in 0..MaxRefInt}

\* is_string(s): isinstance(s, basestring)   (lines 11-13)
is_string(v) == v.str

DigitChars == <<"0", "1", "2", "3", "4", "5", "6", "7", "8", "9">>

RECURSIVE str(_)
\* str(n) of a number n >= 0: its decimal digits, no leading zero
str(n) ==
    IF n < 10 THEN <<DigitChars[n + 1]>>
    ELSE str(n \div 10) \o <<DigitChars[(n % 10) + 1]>>

InitResolve ==
    /\ IdleIterate
    /\ IdleFilter
    /\ IdleStream
    /\ IdleSync
    /\ given \in RefValues
    /\ ref = <<>>
    /\ cql = <<>>
    /\ again = <<>>
    /\ rpc = "call"

\* lines 384-399: resolveCQL(given)
Resolve ==
    /\ rpc = "call"
    /\ ref' = IF is_string(given) THEN given.text ELSE str(given.num)
    /\ cql' = resolveCQL(ref')
    /\ rpc' = "done"
    /\ UNCHANGED <<given, again, exceptResolve>>

\* lines 384-399: resolveCQL of the string the first call returned
ResolveAgain ==
    /\ rpc = "done"
    /\ again' = resolveCQL(cql)
    /\ rpc' = "again"
    /\ UNCHANGED <<given, ref, cql, exceptResolve>>

NextResolve == Resolve \/ ResolveAgain

SpecResolve == InitResolve /\ [][NextResolve]_vars

(***************************************************************************)
(* GETPAGESWITHPROPERTIES: the page-property filter (lines 452-493).       *)
(***************************************************************************)

\* PAGE_PROP_FILTER = re.compile(r'^(.*?)([!=])=(.*)'): the shortest name that
\* is followed by `!=` or `==`, all on the string's first line
PAGE_PROP_FILTER(s) ==
    LET L    == PrefixLenNot(s, {NL})
        hits == {i \in 1..(L - 1) : s[i] \in {"!", "="} /\ s[i + 1] = "="}
    IN  IF hits # {}
        THEN LET i == CHOOSE h \in hits : \A g \in hits : h <= g
             IN  [ok |-> TRUE, mob |-> <<SubSeq(s, 1, i - 1), s[i], SubSeq(s, i + 2, L)>>]
        ELSE NoMatch

\* an item of page_prop_filter: a string, or a name/cmp/value record
StringItem(t) == [str |-> TRUE, text |-> t, name |-> <<>>, cmp |-> "", value |-> <<>>]
DictItem(n, c, v) == [str |-> FALSE, text |-> <<>>, name |-> n, cmp |-> c, value |-> v]

RECURSIVE BuildFilters(_, _, _)
\* lines 462-469: the loop over the items; acc is page_prop_filters, c is `cmp`
BuildFilters(items, acc, c) ==
    IF items = <<>> THEN [filters |-> acc, cmp |-> c]
    ELSE LET item == Head(items)
             m    == PAGE_PROP_FILTER(item.text)
         IN  IF item.str
             THEN IF m.ok
                  THEN BuildFilters(Tail(items),
                           Append(acc, [name |-> m.mob[1], cmp |-> m.mob[2],
                                        value |-> m.mob[3]]),
                           m.mob[2])
                  ELSE BuildFilters(Tail(items), acc, c)
             ELSE BuildFilters(Tail(items),
                      Append(acc, [name |-> item.name, cmp |-> item.cmp,
                                   value |-> item.value]),
                      c)

\* a property value: absent (None), a scalar, or a collection
None == [kind |-> "none", items |-> <<>>]
Scalar(v) == [kind |-> "scalar", items |-> <<v>>]
List(l) == [kind |-> "list", items |-> l]

\* page.getPageProperty(name)
getPageProperty(name) == IF name \in DOMAIN props THEN props[name] ELSE None

Elems(l) == {l[i] : i \in DOMAIN l}

\* lines 477-488: one round of the loop, for the filter f and the operator op
\* the code compares with
FilterHolds(f, op) ==
    LET value == getPageProperty(f.name)
    IN  IF op = "="
        THEN IF value.kind = "list"
             THEN f.value \in Elems(value.items)
             ELSE value = Scalar(f.value)
        ELSE IF value.kind = "list"
             THEN f.value \notin Elems(value.items)
             ELSE value # Scalar(f.value)

\* page_prop_filterer(page), lines 471-490: `cmp` is the enclosing function's
\* local, read through the closure; reading it unassigned raises NameError
page_prop_filterer ==
    IF Len(page_prop_filters) = 0 THEN "pass"
    ELSE IF cmp = "unbound" THEN "NameError"
    ELSE IF \A k \in DOMAIN page_prop_filters : FilterHolds(page_prop_filters[k], cmp)
         THEN "pass" ELSE "drop"

MaxSpecs == 2    \* a list of filter items has 0..MaxSpecs items

FilterNames  == {<<"p">>, <<"q">>}
FilterValues == {<<"x">>}
FilterOps    == {<<"=", "=">>, <<"!", "=">>, <<"=">>}
FilterItems  ==
    {StringItem(n \o o \o v) : n \in FilterNames, o \in FilterOps, v \in FilterValues}
    \cup {DictItem(n, c, v) : n \in FilterNames, c \in {"=", "!"}, v \in FilterValues}
FilterArgs ==
    {[kind |-> "none", items |-> <<>>]}
    \cup {[kind |-> "item", items |-> <<i>>] : i \in FilterItems}
    \cup {[kind |-> "list", items |-> l] :
              l \in UNION {[1..n -> FilterItems] : n \in 0..MaxSpecs}}
PropValues ==
    {None, Scalar(<<"x">>), Scalar(<<"y">>), List(<<>>), List(<<<<"x">>>>),
     List(<<<<"y">>>>), List(<<<<"x">>, <<"y">>>>)}

InitFilter ==
    /\ IdleIterate
    /\ IdleResolve
    /\ IdleStream
    /\ IdleSync
    /\ page_prop_filter \in FilterArgs
    /\ props \in [FilterNames -> PropValues]
    /\ page_prop_filters = <<>>
    /\ cmp = "unbound"
    /\ passed = "none"
    /\ fpc = "call"

\* lines 454-469: page_prop_filters is built (one item is wrapped into a list)
FilterSetup ==
    /\ fpc = "call"
    /\ LET built == BuildFilters(page_prop_filter.items, <<>>, "unbound")
       IN  /\ page_prop_filters' = built.filters
           /\ cmp' = built.cmp
    /\ fpc' = "filter"
    /\ UNCHANGED <<page_prop_filter, props, passed, exceptFilter>>

\* line 492: page_prop_filterer is applied to the page
FilterPage ==
    /\ fpc = "filter"
    /\ passed' = page_prop_filterer
    /\ fpc' = "done"
    /\ UNCHANGED <<page_prop_filter, page_prop_filters, cmp, props, exceptFilter>>

NextFilter == FilterSetup \/ FilterPage

SpecFilter == InitFilter /\ [][NextFilter]_vars

(***************************************************************************)
(* GETPAGESWITHPROPERTIES, line 492: filter(page_prop_filterer, getPages)  *)
(* over the pages of iterate, and the loop that yields what it gives.  The *)
(* module is Python 2 (urlparse, basestring, StandardError; lines 1-16):   *)
(* filter() is the builtin that returns a list.                            *)
(***************************************************************************)
MaxStreamTotal == 27   \* the queried collection holds 0..MaxStreamTotal pages

\* the pages whose property p may be "x": the first two of the first page of
\* results, its last one, and the first of the second page
Marks == {1, 2, PageSize, PageSize + 1}

\* the properties of the page that is item i of the collection
PageProps(i) ==
    [n \in FilterNames |->
        IF n = <<"p">>
        THEN IF i \in marked THEN Scalar(<<"x">>) ELSE Scalar(<<"y">>)
        ELSE None]

StreamFilters ==
    {[kind |-> "none", items |-> <<>>],
     [kind |-> "item", items |-> <<StringItem(<<"p", "=", "=", "x">>)>>],
     [kind |-> "item", items |-> <<StringItem(<<"p", "!", "=", "x">>)>>],
     [kind |-> "item", items |-> <<DictItem(<<"p">>, "=", <<"x">>)>>]}

InitStream ==
    /\ IdleResolve
    /\ IdleSync
    /\ collection \in 0..MaxStreamTotal
    /\ remoteLimit \in (PageSize - MaxCapCut)..PageSize
    /\ kwargs = [start |-> 0, limit |-> -1]
    /\ start = 0
    /\ maxResults = 0
    /\ result = [results |-> <<>>, size |-> 0, limit |-> 0]
    /\ pos = 0
    /\ ipc = "new"
    /\ yielded = <<>>
    /\ requests = <<>>
    /\ page_prop_filter \in StreamFilters
    /\ page_prop_filters = <<>>
    /\ cmp = "unbound"
    /\ props = <<>>
    /\ passed = "none"
    /\ fpc = "call"
    /\ marked \in SUBSET (Marks \cap 1..collection)
    /\ tested = 0
    /\ lookups = <<>>
    /\ filtered = <<>>
    /\ out = <<>>
    /\ gpc = "new"

\* line 492: the arguments of filter() are ready (getPages(cql) makes the
\* generator of lines 215-225, which runs iterate(cql=cql, expand=expand))
StreamBegin ==
    /\ gpc = "new" /\ fpc = "filter"
    /\ gpc' = "filter"
    /\ UNCHANGED <<marked, tested, lookups, filtered, out, ivars, rvars, fvars, svars, hvars>>

\* filter() asks the generator for its next page: iterate runs up to its next
\* yield, or to its end
StreamGenerate ==
    /\ gpc = "filter"
    /\ IterBegin \/ IterFetch \/ IterYield \/ IterAfterFor

\* filter() applies page_prop_filterer to the page it was given (lines 471-490);
\* getPageProperty is called once there is a filter, before `cmp` is read
StreamApply ==
    /\ gpc = "filter" /\ ipc = "yielded" /\ tested < Len(yielded)
    /\ props' = PageProps(yielded[Len(yielded)])
    /\ UNCHANGED <<page_prop_filter, page_prop_filters, cmp, fpc>>
    /\ passed' = page_prop_filterer'
    /\ tested' = tested + 1
    /\ lookups' = IF Len(page_prop_filters) = 0 THEN lookups
                  ELSE Append(lookups, yielded[Len(yielded)])
    /\ filtered' = IF passed' = "pass" THEN Append(filtered, yielded[Len(yielded)])
                   ELSE filtered
    /\ gpc' = IF passed' = "NameError" THEN "NameError" ELSE gpc
    /\ UNCHANGED <<marked, out, ivars, rvars, svars, hvars>>

\* filter() goes on to the next page of the generator
StreamPull ==
    /\ gpc = "filter" /\ tested = Len(yielded)
    /\ IterResume

\* the generator is exhausted: filter() returns its list, the for loop starts
StreamEnd ==
    /\ gpc = "filter" /\ ipc = "done"
    /\ gpc' = "for"
    /\ UNCHANGED <<marked, tested, lookups, filtered, out, ivars, rvars, fvars, svars, hvars>>

\* line 493: the next page of the list is yielded to the caller
StreamYield ==
    /\ gpc = "for" /\ Len(out) < Len(filtered)
    /\ out' = Append(out, filtered[Len(out) + 1])
    /\ UNCHANGED <<marked, tested, lookups, filtered, gpc, ivars, rvars, fvars, svars, hvars>>

\* the list is exhausted
StreamStop ==
    /\ gpc = "for" /\ Len(out) = Len(filtered)
    /\ gpc' = "done"
    /\ UNCHANGED <<marked, tested, lookups, filtered, out, ivars, rvars, fvars, svars, hvars>>

NextStream ==
    \/ FilterSetup \/ StreamBegin \/ StreamGenerate \/ StreamApply \/ StreamPull
    \/ StreamEnd \/ StreamYield \/ StreamStop

SpecStream == InitStream /\ [][NextStream]_vars

(***************************************************************************)
(* COPYPAGE: the page-tree synchronizer (lines 138-198), one step per      *)
(* remote call, with the remote content store it reads and writes.         *)
(***************************************************************************)

\* a page reference as copyPage receives it: a content id, or a title
IdRef(i)    == [kind |-> "id", id |-> i, title |-> ""]
TitleRef(t) == [kind |-> "title", id |-> 0, title |-> t]

\* one remote call, as logged
Call(op, id, title, parent, version, body) ==
    [op |-> op, id |-> id, title |-> title, parent |-> parent, version |-> version,
     body |-> body]

\* getPage(ref, expand): GET /rest/api/content/<ref>.  request() raises
\* ConfluenceError on a status >= 400 (lines 81-88), which is what the remote
\* answers for a reference it holds no page for; otherwise a Page is returned,
\* never None.
getPageOrNone(r) ==
    IF r.kind = "id" /\ r.id \in DOMAIN content
    THEN [error |-> FALSE, id |-> r.id]
    ELSE [error |-> FALSE, id |-> 0]
getPage(r) ==
    IF r.kind = "id" /\ r.id \in DOMAIN content
    THEN [error |-> FALSE, id |-> r.id]
    ELSE [error |-> TRUE, id |-> 0]

\* the GET of getPage(r) as logged: the reference asked for and, when the remote
\* holds the page, the title, version and body of the answer
Fetch(r) ==
    IF getPage(r).error \/ getPage(r).id = 0
    THEN Call("GET", r.id, r.title, 0, 0, 0)
    ELSE Call("GET", r.id, content[r.id].title, 0, content[r.id].version,
              content[r.id].body)

\* getChildren(page_id, type='page'): the direct children, as the remote holds them
getChildren(pg) == {i \in DOMAIN content : content[i].parent = pg}

TitlesOf(S) == {content[i].title : i \in S}

\* dict(sorted([(p['title'], p) for p in children])): of two children with the
\* same title the one sorted last stays
SubpageDict(S) ==
    [t \in TitlesOf(S) |->
        CHOOSE i \in S : /\ content[i].title = t
                         /\ \A j \in S : content[j].title = t => j <= i]

\* assert len(subpage.keys()) == len(subpages)   (lines 183-184)
NoDuplicatesUnchecked(S, d) == TRUE
NoDuplicates(S, d) == Cardinality(DOMAIN d) = Cardinality(S)

\* lines 187-190: the target of the recursive call for the source child `title`
ChildTargetByTitle(title, target_subpage) == TitleRef(title)
ChildTarget(title, target_subpage) ==
    IF title \in DOMAIN target_subpage
    THEN IdRef(target_subpage[title])
    ELSE TitleRef(title)

\* the remote's create: a new page with a fresh id, version 1
RemoteCreate(title, body, parent) ==
    LET new == 1 + Cardinality(DOMAIN content)
    IN  [id |-> new,
         content |-> [i \in DOMAIN content \cup {new} |->
                        IF i = new
                        THEN [title |-> title, parent |-> parent, body |-> body,
                              version |-> 1]
                        ELSE content[i]]]

\* the remote's update: accepted when it carries the version the page has (a stale
\* one is rejected); the body is replaced and the version bumped
RemoteUpdate(id, title, version, body) ==
    IF version = content[id].version
    THEN [error |-> FALSE,
          content |-> [content EXCEPT ![id] = [@ EXCEPT !.title = title, !.body = body,
                                                         !.version = version + 1]]]
    ELSE [error |-> TRUE, content |-> content]

\* a copyPage call that has just been entered
Frame(source, target, parent, recursive, delete) ==
    [source |-> source, target |-> target, parent |-> parent,
     recursive |-> recursive, delete |-> delete, pc |-> "source",
     source_page |-> [id |-> 0, body |-> 0],
     target_page |-> [id |-> 0, title |-> "", version |-> 0],
     source_subpage |-> <<>>, target_subpage |-> <<>>, remaining |-> {}]

top == stack[Len(stack)]
SetTop(f) == [stack EXCEPT ![Len(stack)] = f]

\* an exception leaves every copyPage frame: nothing in copyPage catches it
RaiseInnermost(e) ==
    /\ stack' = SubSeq(stack, 1, Len(stack) - 1)
    /\ outcome' = e
Raise(e) ==
    /\ stack' = <<>>
    /\ outcome' = e

\* what request() raises: ConfluenceError for an answer with a status >= 400
\* (lines 81-88), or the error of the HTTP session, passed on (lines 76-78)
RemoteErrors == {"ConfluenceError", "StandardError"}

\* the remote rejects the call being made (404 for a missing page, a stale
\* version): request() raises ConfluenceError
Rejected ==
    /\ failure' = [at |-> Len(calls) + 1, error |-> "ConfluenceError",
                   injected |-> FALSE, content |-> content]
    /\ Raise("ConfluenceError")

\* the remote, or the way to it, is out of order when `call` is made: the call
\* has no effect and request() raises
RemoteFails(call) ==
    \E e \in RemoteErrors :
        /\ calls' = Append(calls, call)
        /\ failure' = [at |-> Len(calls) + 1, error |-> e, injected |-> TRUE,
                       content |-> content]
        /\ Raise(e)
        /\ UNCHANGED content

\* copyPage has no return statement: the call evaluates to None (0), whatever
\* the frame f holds
ReturnValue(f) == 0

\* {'number': int(version)}   (lines 251-252)
VersionNumberNext(version) == version + 1
VersionNumber(version) == version

\* updatePage(id, title, version=..., storage=...): the PUT of lines 269-274
updatePage(id, title, version, storage) ==
    Call("PUT", id, title, 0, VersionNumber(version), storage)

\* what `target_page` holds of the answer to getPage(target, expand='version,
\* space'); the id 0 stands for None
TargetItem(id) ==
    IF id = 0 THEN [id |-> 0, title |-> "", version |-> 0]
    ELSE [id |-> id, title |-> content[id].title, version |-> content[id].version]

\* line 155: source_page = self.getPage(source, expand='body.storage,space')
SyncGetSource ==
    /\ stack # <<>> /\ top.pc = "source"
    /\ \/ RemoteFails(Call("GET", top.source.id, top.source.title, 0, 0, 0))
       \/ /\ calls' = Append(calls, Fetch(top.source))
          /\ IF getPage(top.source).error
             THEN Rejected
             ELSE /\ stack' = SetTop([top EXCEPT
                            !.source_page = [id |-> getPage(top.source).id,
                                             body |-> content[getPage(top.source).id].body],
                            !.pc = "target"])
                  /\ UNCHANGED <<outcome, failure>>
          /\ UNCHANGED content
    /\ UNCHANGED <<args, returned, exceptSync>>

\* line 156: target_page = self.getPage(target, expand='version,space')
SyncGetTarget ==
    /\ stack # <<>> /\ top.pc = "target"
    /\ \/ RemoteFails(Call("GET", top.target.id, top.target.title, 0, 0, 0))
       \/ /\ calls' = Append(calls, Fetch(top.target))
          /\ IF getPage(top.target).error
             THEN Rejected
             ELSE /\ stack' = SetTop([top EXCEPT
                            !.target_page = TargetItem(getPage(top.target).id),
                            !.pc = "put"])
                  /\ UNCHANGED <<outcome, failure>>
          /\ UNCHANGED content
    /\ UNCHANGED <<args, returned, exceptSync>>

\* lines 158-172: createPage when target_page is None, else updatePage
SyncPut ==
    /\ stack # <<>> /\ top.pc = "put"
    /\ LET next == IF top.recursive THEN "schildren" ELSE "return"
       IN  IF top.target_page.id = 0
           THEN LET made == RemoteCreate(top.target.title, top.source_page.body,
                                         top.parent)
                    post == Call("POST", made.id, top.target.title, top.parent, 0,
                                 top.source_page.body)
                IN  \/ RemoteFails(post)
                    \/ /\ calls' = Append(calls, post)
                       /\ content' = made.content
                       /\ stack' = SetTop([top EXCEPT
                                      !.target_page = [id |-> made.id,
                                                       title |-> top.target.title,
                                                       version |-> 1],
                                      !.pc = next])
                       /\ UNCHANGED <<outcome, failure>>
           ELSE LET call == updatePage(top.target_page.id, top.target_page.title,
                                       top.target_page.version, top.source_page.body)
                    put  == RemoteUpdate(call.id, call.title, call.version, call.body)
                IN  \/ RemoteFails(call)
                    \/ /\ calls' = Append(calls, call)
                       /\ content' = put.content
                       /\ IF put.error
                          THEN Rejected
                          ELSE /\ stack' = SetTop([top EXCEPT !.pc = next])
                               /\ UNCHANGED <<outcome, failure>>
    /\ UNCHANGED <<args, returned, exceptSync>>

\* line 175: the source page's children are fetched
SyncSourceChildren ==
    /\ stack # <<>> /\ top.pc = "schildren"
    /\ LET call == Call("GETCHILDREN", top.source_page.id, "", 0, 0, 0)
       IN  \/ RemoteFails(call)
           \/ /\ calls' = Append(calls, call)
              /\ stack' = SetTop([top EXCEPT
                             !.source_subpage = SubpageDict(getChildren(top.source_page.id)),
                             !.pc = "tchildren"])
              /\ UNCHANGED <<content, outcome, failure>>
    /\ UNCHANGED <<args, returned, exceptSync>>

\* lines 176-184: the target page's children are fetched, both sides are keyed
\* by title, and the two assertions are made
SyncTargetChildren ==
    /\ stack # <<>> /\ top.pc = "tchildren"
    /\ LET call == Call("GETCHILDREN", top.target_page.id, "", 0, 0, 0)
           target_subpage == SubpageDict(getChildren(top.target_page.id))
       IN  \/ RemoteFails(call)
           \/ /\ calls' = Append(calls, call)
              /\ IF /\ NoDuplicates(getChildren(top.source_page.id), top.source_subpage)
                    /\ NoDuplicates(getChildren(top.target_page.id), target_subpage)
                 THEN /\ stack' = SetTop([top EXCEPT
                                     !.target_subpage = target_subpage,
                                     !.remaining = DOMAIN top.source_subpage,
                                     !.pc = "loop"])
                      /\ UNCHANGED outcome
                 ELSE Raise("AssertionError")
              /\ UNCHANGED <<content, failure>>
    /\ UNCHANGED <<args, returned, exceptSync>>

\* lines 186-193: the next source child (a dict has no order of its own) is
\* copied by a nested call; `delete` is not handed on
SyncDescend ==
    /\ stack # <<>> /\ top.pc = "loop"
    /\ \E title \in top.remaining :
          stack' = Append(SetTop([top EXCEPT !.remaining = @ \ {title}]),
                          Frame(IdRef(top.source_subpage[title]),
                                ChildTarget(title, top.target_subpage),
                                top.target_page.id, top.recursive, FALSE))
    /\ UNCHANGED <<content, args, calls, outcome, returned, failure, exceptSync>>

\* lines 195-198: the loop that deletes the target children missing in the
\* source.  self.deletePage is defined nowhere: __getattr__ (lines 53-59) raises
\* AttributeError for it, before any remote call.
SyncPrune ==
    /\ stack # <<>> /\ top.pc = "loop" /\ top.remaining = {} /\ top.delete
    /\ IF DOMAIN top.target_subpage \subseteq DOMAIN top.source_subpage
       THEN /\ stack' = SetTop([top EXCEPT !.pc = "return"])
            /\ UNCHANGED outcome
       ELSE Raise("AttributeError")
    /\ UNCHANGED <<content, args, calls, returned, failure, exceptSync>>

\* the call returns to its caller
SyncReturn ==
    /\ stack # <<>>
    /\ \/ top.pc = "return"
       \/ top.pc = "loop" /\ top.remaining = {} /\ ~top.delete
    /\ stack' = SubSeq(stack, 1, Len(stack) - 1)
    /\ outcome' = IF Len(stack) = 1 THEN "returned" ELSE outcome
    /\ returned' = IF Len(stack) = 1 THEN ReturnValue(top) ELSE returned
    /\ UNCHANGED <<content, args, calls, failure, exceptSync>>

MaxSource == 4   \* the source tree has 1..MaxSource pages
MaxTarget == 3   \* the target tree has 0..MaxTarget pages

Titles == {"B", "C"}

\* a tree of n pages numbered from `base`+1 on, the root first: page base+j
\* (j >= 2) has the parent base+par[j] and the title tit[j]
\* a source page's body is its own id (each differs), a target page's is 0; a
\* target page's version is its number in the tree (each differs)
Tree(base, n, par, tit, rootTitle, isSource) ==
    [i \in (base + 1)..(base + n) |->
        [title   |-> IF i = base + 1 THEN rootTitle ELSE tit[i - base],
         parent  |-> IF i = base + 1 THEN 0 ELSE base + par[i - base],
         body    |-> IF isSource THEN i ELSE 0,
         version |-> IF isSource THEN 1 ELSE i - base]]

\* parents come before their children, in the order of the numbering
Parents(n) ==
    {par \in [2..n -> 1..n] :
        /\ \A j \in 2..n : par[j] < j
        /\ \A j \in 2..(n - 1) : par[j] <= par[j + 1]}

\* the call copyPage(source, target, recursive, delete=...) on a remote that
\* holds a source tree of up to maxSource pages and a target tree of up to
\* maxTarget pages (none: the target is the title of a page yet to be made)
SyncCall(maxSource, maxTarget) ==
    /\ \E ns \in 1..maxSource, nt \in 0..maxTarget :
         \E sp \in Parents(ns), st \in [2..ns -> Titles],
            tp \in Parents(nt), tt \in [2..nt -> Titles] :
            /\ content = Tree(0, ns, sp, st, "A", TRUE)
                             @@ Tree(ns, nt, tp, tt, "A", FALSE)
            /\ \E recursive \in BOOLEAN, delete \in BOOLEAN :
                 args = [source |-> IdRef(1),
                         target |-> IF nt = 0 THEN TitleRef("NewA") ELSE IdRef(ns + 1),
                         recursive |-> recursive, delete |-> delete]
    /\ stack = <<Frame(args.source, args.target, 0, args.recursive, args.delete)>>
    /\ calls = <<>>
    /\ outcome = "running"
    /\ returned = 0
    /\ failure = [at |-> 0, error |-> "none", injected |-> FALSE, content |-> <<>>]
    /\ run = 1
    /\ first = [outcome |-> "none", ncalls |-> 0, pages |-> {}]

InitSync ==
    /\ IdleIterate
    /\ IdleResolve
    /\ IdleFilter
    /\ IdleStream
    /\ SyncCall(MaxSource, MaxTarget)

NextSync ==
    \/ SyncGetSource \/ SyncGetTarget \/ SyncPut \/ SyncSourceChildren
    \/ SyncTargetChildren \/ SyncDescend \/ SyncPrune \/ SyncReturn

SpecSync == InitSync /\ [][NextSync]_vars

(***************************************************************************)
(* COPYPAGE called a second time, with the same arguments, once the first  *)
(* call has returned or failed.                                            *)
(***************************************************************************)
MaxResyncSource == 3   \* the source tree has 1..MaxResyncSource pages
MaxResyncTarget == 2   \* the target tree has 0..MaxResyncTarget pages

InitResync ==
    /\ IdleIterate
    /\ IdleResolve
    /\ IdleFilter
    /\ IdleStream
    /\ SyncCall(MaxResyncSource, MaxResyncTarget)

\* the caller calls copyPage again, with the arguments of the first call
SyncRerun ==
    /\ run = 1 /\ stack = <<>> /\ outcome # "running"
    /\ run' = 2
    /\ first' = [outcome |-> outcome, ncalls |-> Len(calls), pages |-> DOMAIN content]
    /\ stack' = <<Frame(args.source, args.target, 0, args.recursive, args.delete)>>
    /\ outcome' = "running"
    /\ returned' = 0
    /\ failure' = [at |-> 0, error |-> "none", injected |-> FALSE, content |-> <<>>]
    /\ UNCHANGED <<content, args, calls, ivars, rvars, fvars, gvars>>

NextResync == NextSync \/ SyncRerun

SpecResync == InitResync /\ [][NextResync]_vars

(***************************************************************************)
(* Claims about iterate, checked under SpecIterate.                        *)
(***************************************************************************)

\* the items of the collection from the caller's start on
Avail == Max(0, collection - kwargs.start)

\* the remote serves pages of the requested size (full pages, then a short one)
FullPages == remoteLimit >= PageSize

CeilDiv(a, b) == (a + b - 1) \div b

RECURSIVE SumSizes(_)
SumSizes(rs) == IF rs = <<>> THEN 0 ELSE rs[1].size + SumSizes(Tail(rs))

\* C2: with limit N >= 1 and a remote serving full pages followed by a short
\* one, iterate yields exactly min(N, total) items: the first min(N, total)
\* items of the collection (from start on), in the remote's order, none twice.
C2_YieldsFirstMin ==
    (kwargs.limit >= 1 /\ FullPages) =>
        /\ Len(yielded) <= Min(kwargs.limit, Avail)
        /\ \A i \in 1..Len(yielded) : yielded[i] = kwargs.start + i
        /\ (ipc = "done" => Len(yielded) = Min(kwargs.limit, Avail))

\* a run that stopped in the middle of its second page
C2_Witness ==
    /\ ipc = "done" /\ FullPages /\ kwargs.start = 0
    /\ kwargs.limit > PageSize /\ kwargs.limit < collection
    /\ Len(yielded) = kwargs.limit
    /\ Len(requests) = 2

\* C8 as stated: with no limit given, no page request follows a fetched page
\* whose item count is smaller than the requested page size (25), whatever
\* limit the remote reports.
C8_StopsBelowRequestedSize ==
    kwargs.limit = -1 =>
        \A i \in 1..(Len(requests) - 1) : requests[i].size >= PageSize

\* C8 amended: with no limit given, iterate stops at the first fetched page whose
\* item count is smaller than the limit the remote reports in that response: no
\* request follows such a page (the generator never gets back to fetching after
\* one), every request before it returned as many items as the limit it reported,
\* and when the generator ends all the items fetched were yielded.
C8_StopsBelowReportedLimit ==
    kwargs.limit = -1 =>
        /\ \A i \in 1..(Len(requests) - 1) : requests[i].size >= requests[i].rlimit
        /\ (ipc = "fetch" /\ requests # <<>>) =>
              requests[Len(requests)].size >= requests[Len(requests)].rlimit
        /\ ipc = "done" =>
              /\ requests # <<>>
              /\ requests[Len(requests)].size < requests[Len(requests)].rlimit
              /\ Len(yielded) = SumSizes(requests)

\* an unlimited run that went on after a page of fewer than 25 items
C8_Witness ==
    /\ kwargs.limit = -1 /\ ipc = "done"
    /\ remoteLimit < PageSize
    /\ Len(requests) >= 2
    /\ requests[1].size < PageSize

\* C9 as stated: a fully consumed iterate(limit = N >= 1) issues exactly
\* ceil(min(N, total) / 25) page requests.
C9_CeilRequests ==
    (ipc = "done" /\ kwargs.limit >= 1 /\ FullPages) =>
        Len(requests) = CeilDiv(Min(kwargs.limit, Avail), PageSize)

\* C9 amended: against a remote serving full pages followed by a short one, a
\* fully consumed iterate(limit = N >= 1) issues ceil(N / 25) page requests when
\* N <= total, and floor(total / 25) + 1 when N > total (one more than the
\* stated formula when total is 0 or a multiple of 25: the empty last page).
C9_RequestCount ==
    (ipc = "done" /\ kwargs.limit >= 1 /\ FullPages) =>
        Len(requests) = IF kwargs.limit <= Avail
                        THEN CeilDiv(kwargs.limit, PageSize)
                        ELSE (Avail \div PageSize) + 1

\* the collection is exactly one full page and the limit is larger
C9_Witness ==
    /\ ipc = "done" /\ FullPages
    /\ Avail = PageSize /\ kwargs.limit > Avail
    /\ Len(requests) = 2
    /\ Len(yielded) = PageSize

\* C10 as stated: iterate with limit = 0 yields no item at all and issues at
\* most one page request.
C10_ZeroLimitYieldsNothing ==
    kwargs.limit = 0 => (yielded = <<>> /\ Len(requests) <= 1)

\* C23 as stated: with no limit given, against a remote that returns at most
\* the requested number of items per page (possibly fewer, reporting its own
\* smaller page limit), the offset of each page request is `start` plus the
\* number of items returned by all earlier pages, and the items yielded are a
\* gap-free, duplicate-free run of the collection beginning at `start`.
C23_GapFreeRun ==
    kwargs.limit = -1 =>
        /\ \A i \in DOMAIN requests :
              requests[i].start = kwargs.start + SumSizes(SubSeq(requests, 1, i - 1))
        /\ \A i \in DOMAIN yielded : yielded[i] = kwargs.start + i

(***************************************************************************)
(* Claims about resolveCQL, checked under SpecResolve.                     *)
(***************************************************************************)

\* sub occurs in s as a contiguous run of characters
Contains(s, sub) ==
    \E i \in 0..(Len(s) - Len(sub)) : SubSeq(s, i + 1, i + Len(sub)) = sub

\* ref has the form <KEY>:<text>, KEY one or more uppercase letters, text non-empty
HasKeyAndText == 
    LET k == PrefixLen(ref, Upper)
    IN  k >= 1 /\ k + 1 < Len(ref) /\ ref[k + 1] = ":"
RefKey  == Take(ref, PrefixLen(ref, Upper))
RefText == Drop(ref, PrefixLen(ref, Upper) + 1)

HasColonOnly == ref # <<>> /\ ref[1] = ":"

\* C11 as stated: for every reference :<text> (leading colon, no space key;
\* text free of line breaks) the returned query is the title-only query
\* `title = "<text>"` (whatever the blanks around `=`), with no space condition
\* in it; a space condition appears only for a key of one or more uppercase
\* letters.
C11_ColonRefTitleOnly ==
    (rpc = "done" /\ HasColonOnly /\ NL \notin {ref[i] : i \in DOMAIN ref}) =>
        /\ cql \in {<<"t", "i", "t", "l", "e", " ", "=", " ", "\"">> \o Tail(ref) \o <<"\"">>,
                    FormatTitle(Tail(ref))}
        /\ ~Contains(cql, <<"s", "p", "a", "c", "e">>)

\* s consists of decimal digits only (one or more)
DigitsOnly(s) == s # <<>> /\ \A i \in DOMAIN s : s[i] \in Digit

RECURSIVE DigitsValue(_)
\* the number a string of decimal digits denotes
DigitsValue(s) ==
    IF s = <<>> THEN 0
    ELSE 10 * DigitsValue(Take(s, Len(s) - 1))
         + (CHOOSE d \in 0..9 : DigitChars[d + 1] = s[Len(s)])

\* what the caller passed was digits only: such a string, or a number >= 0
GivenDigits == IF is_string(given) THEN DigitsOnly(given.text) ELSE given.num >= 0

Matches(s) ==
    SPACE_PAGE_REF(s).ok \/ PAGE_REF(s).ok \/ PAGE_ID(s).ok \/ PAGE_URI(s).ok

\* C16: resolveCQL is idempotent.  Resolving the returned query again returns it
\* unchanged: a query produced by one of the four rules is matched by none of
\* them, and a reference that no rule matches is returned as it is.
C16_Idempotent ==
    /\ rpc = "again" => again = cql
    /\ rpc # "call" =>
          /\ Matches(ref) => ~Matches(cql)
          /\ ~Matches(ref) => cql = ref

\* the query of the content-URI rule, resolved a second time
C16_Witness ==
    /\ rpc = "again"
    /\ PAGE_URI(ref).ok /\ ~SPACE_PAGE_REF(ref).ok /\ ~PAGE_ID(ref).ok
    /\ cql = FormatID(<<"7", "7">>)
    /\ again = cql

(***************************************************************************)
(* Claims about the property filter, checked under SpecFilter.             *)
(***************************************************************************)

\* the name/cmp/value a filter item stands for
SpecOf(item) ==
    IF item.str
    THEN [name  |-> PAGE_PROP_FILTER(item.text).mob[1],
          cmp   |-> PAGE_PROP_FILTER(item.text).mob[2],
          value |-> PAGE_PROP_FILTER(item.text).mob[3]]
    ELSE [name |-> item.name, cmp |-> item.cmp, value |-> item.value]
IsSpec(item) == item.str => PAGE_PROP_FILTER(item.text).ok

\* C4 as stated: with a single filter spec on a property whose stored value is a
\* collection, the item passes iff the spec's value is a member of the collection
\* (equality spec), or iff it is not a member (not-equals spec).
C4_SingleSpecMembership ==
    (/\ fpc = "done"
     /\ Len(page_prop_filter.items) = 1
     /\ IsSpec(page_prop_filter.items[1])
     /\ getPageProperty(SpecOf(page_prop_filter.items[1]).name).kind = "list") =>
        LET f      == SpecOf(page_prop_filter.items[1])
            member == f.value \in Elems(getPageProperty(f.name).items)
        IN  (passed = "pass") <=> (IF f.cmp = "=" THEN member ELSE ~member)

\* C12 as stated: with several filter specs (strings, name/operator/value
\* records, or a mix; equals and not-equals in any mix) the item passes iff every
\* spec holds for it, each spec evaluated with its own operator against its own
\* named property.
C12_EverySpecOwnOperator ==
    (/\ fpc = "done"
     /\ Len(page_prop_filter.items) >= 2
     /\ \A k \in DOMAIN page_prop_filter.items : IsSpec(page_prop_filter.items[k])) =>
        ((passed = "pass") <=>
            \A k \in DOMAIN page_prop_filter.items :
                FilterHolds(SpecOf(page_prop_filter.items[k]),
                            SpecOf(page_prop_filter.items[k]).cmp))

(***************************************************************************)
(* Claims about line 492, checked under SpecStream.                        *)
(***************************************************************************)

\* the page request that returned item i
HoldsItem(r, i) == r.start < i /\ i <= r.start + r.size

\* C13 as stated: the property filter is streaming and pull-based.  When a page
\* has been yielded to the caller, every page request issued so far is the one
\* that returned it or an earlier one, and no property was looked up for an item
\* beyond the page of results that holds it (so a caller that stops there causes
\* no request and no lookup for later pages); the pages are yielded in input order.
C13_StreamsPageByPage ==
    /\ out # <<>> =>
          /\ \A j \in DOMAIN requests : requests[j].start < out[Len(out)]
          /\ \A j \in DOMAIN requests, l \in DOMAIN lookups :
                HoldsItem(requests[j], out[Len(out)]) =>
                    lookups[l] <= requests[j].start + requests[j].size
    /\ \A a, b \in DOMAIN out : a < b => out[a] < out[b]

(***************************************************************************)
(* Claims about copyPage, checked under SpecSync.                          *)
(***************************************************************************)

SyncDone == outcome \notin {"running", "idle"}

CallsOf(op) == {j \in DOMAIN calls : calls[j].op = op}

RECURSIVE RootOf(_)
RootOf(i) == IF content[i].parent = 0 THEN i ELSE RootOf(content[i].parent)

\* the pages of the source tree
SourcePages == {i \in DOMAIN content : RootOf(i) = args.source.id}

HasDuplicateChildren(pg) ==
    \E a, b \in getChildren(pg) : a # b /\ content[a].title = content[b].title

\* sibling titles are unique, in the source tree and in the target tree
WellFormed == \A pg \in DOMAIN content : ~HasDuplicateChildren(pg)

RECURSIVE Mate(_)
\* the target page at the tree position of the source page s: the target root for
\* the source root, else the child of the parent's mate with the same title (0: none)
Mate(s) ==
    IF s = args.source.id
    THEN IF args.target.kind = "id" THEN args.target.id ELSE 0
    ELSE LET pm   == Mate(content[s].parent)
             same == IF pm = 0 THEN {}
                     ELSE {t \in getChildren(pm) : content[t].title = content[s].title}
         IN  IF same = {} THEN 0 ELSE CHOOSE t \in same : TRUE

\* the target tree holds a page for every source page, same title, same position
Mirror == \A s \in SourcePages : Mate(s) # 0

\* the children of the target root whose title no child of the source root has
Orphans ==
    {t \in getChildren(args.target.id) :
        content[t].title \notin TitlesOf(getChildren(args.source.id))}

\* C1 as stated: for a source tree of n pages and a target reference naming a
\* page that does not exist yet, the recursive copyPage issues n create calls and
\* no update call, the create of a page before those of its children, each child
\* created with ancestors = [id of the page created for its source parent]
\* (the remote being in order throughout).
C1_CreatesWholeTree ==
    (/\ SyncDone /\ args.target.kind = "title" /\ args.recursive /\ WellFormed
     /\ ~failure.injected) =>
        /\ outcome = "returned"
        /\ Cardinality(CallsOf("POST")) = Cardinality(SourcePages)
        /\ CallsOf("PUT") = {}
        /\ \A j \in CallsOf("POST") :
              calls[j].body # args.source.id =>
                 \E i \in CallsOf("POST") :
                    /\ i < j
                    /\ calls[i].body = content[calls[j].body].parent
                    /\ calls[j].parent = calls[i].id

\* C5: when the target tree holds, for every source page, a page with the same
\* title at the same tree position (sibling titles unique, nothing to prune below
\* the target root), the recursive copyPage given the existing target root
\* returns after exactly one update call per source page, made on that page's
\* counterpart with the source page's body, and no create call (the remote being
\* in order throughout).
C5_UpdatesEveryMatch ==
    (/\ SyncDone /\ args.target.kind = "id" /\ args.recursive
     /\ WellFormed /\ Mirror /\ ~failure.injected
     /\ (args.delete => Orphans = {})) =>
        /\ outcome = "returned"
        /\ Cardinality(CallsOf("PUT")) = Cardinality(SourcePages)
        /\ CallsOf("POST") = {}
        /\ \A s \in SourcePages :
              \E j \in CallsOf("PUT") :
                 /\ calls[j].id = Mate(s)
                 /\ calls[j].body = content[s].body

\* source A{B}, target A'{B'}: two updates, no create
C5_Witness ==
    /\ outcome = "returned" /\ args.target.kind = "id" /\ args.recursive
    /\ WellFormed /\ Mirror
    /\ Cardinality(SourcePages) = 2
    /\ Cardinality(CallsOf("PUT")) = 2
    /\ CallsOf("POST") = {}

\* C6 as stated: with delete=True and recursive=true, on a target that holds a
\* counterpart of every source page, copyPage returns without error, having
\* issued exactly one delete call for each child of the target root whose title
\* no child of the source root has, no other delete call, and an update call for
\* every counterpart (the remote being in order throughout).
C6_PrunesOrphans ==
    (/\ SyncDone /\ args.target.kind = "id" /\ args.recursive /\ args.delete
     /\ WellFormed /\ Mirror /\ ~failure.injected) =>
        /\ outcome = "returned"
        /\ {calls[j].id : j \in CallsOf("DELETE")} = Orphans
        /\ Cardinality(CallsOf("DELETE")) = Cardinality(Orphans)
        /\ \A s \in SourcePages : \E j \in CallsOf("PUT") : calls[j].id = Mate(s)

\* the levels whose children were compared: the fetch of the source page's
\* children, followed by the fetch of the target page's
Levels ==
    {i \in 1..(Len(calls) - 1) :
        calls[i].op = "GETCHILDREN" /\ calls[i + 1].op = "GETCHILDREN"}

\* C7: when two direct children of the source page, or of the target page, of a
\* level the recursive copyPage reaches have the same title, the call fails with
\* the assertion's error at that level: the fetch of the two child lists is the
\* last remote call, and no create, update or delete call was issued for a child
\* of that level.  At the top level (the target exists) the failure is certain.
\* (The remote is in order throughout: both child lists were delivered.)
C7_DuplicateTitlesFailFast ==
    /\ \A i \in Levels :
          (/\ ~failure.injected
           /\ HasDuplicateChildren(calls[i].id) \/ HasDuplicateChildren(calls[i + 1].id)) =>
             /\ outcome = "AssertionError"
             /\ i + 1 = Len(calls)
             /\ \A j \in DOMAIN calls :
                   /\ ~(/\ calls[j].op \in {"PUT", "DELETE"}
                        /\ calls[j].id \in getChildren(calls[i + 1].id))
                   /\ ~(calls[j].op = "POST" /\ calls[j].parent = calls[i + 1].id)
    /\ (/\ SyncDone /\ args.recursive /\ args.target.kind = "id" /\ ~failure.injected
        /\ (HasDuplicateChildren(args.source.id) \/ HasDuplicateChildren(args.target.id))) =>
          /\ outcome = "AssertionError"
          /\ Cardinality(CallsOf("PUT")) = 1
          /\ CallsOf("POST") = {} /\ CallsOf("DELETE") = {}

\* the failure one level below the top: two children of a source child share a title
C7_Witness ==
    /\ outcome = "AssertionError"
    /\ Cardinality(CallsOf("PUT")) = 2
    /\ Len(calls) >= 2
    /\ HasDuplicateChildren(calls[Len(calls) - 1].id)
    /\ ~HasDuplicateChildren(args.source.id)

\* the create and update calls, which name the target item of their step
Puts == CallsOf("PUT") \cup CallsOf("POST")

\* C14 as stated: a copyPage call that returns without error returns the target
\* content item: the page of the top-level step's create or update call (the
\* first such call of the run).
C14_ReturnsTargetItem ==
    outcome = "returned" =>
        \E j \in Puts :
            /\ \A i \in Puts : j <= i
            /\ returned = calls[j].id

\* the fetch of a step's target: the second of the two GETs a step begins with
IsTargetFetch(j) == j >= 2 /\ calls[j].op = "GET" /\ calls[j - 1].op = "GET"

\* the remote was out of order at call j
Outage(j) == failure.at = j /\ failure.injected

\* the remote holds no page for the reference call j asked for
Missing(j) == calls[j].id \notin DOMAIN content

\* C17 as stated: when the fetch of a step's target reports "not found", no error
\* reaches the caller and the next call is the create; a fetch that fails for
\* another reason ends the call with that error; a fetch that returns an item is
\* followed by the update.
C17_NotFoundTakesCreate ==
    \A j \in DOMAIN calls :
        IsTargetFetch(j) =>
            /\ (Missing(j) /\ ~Outage(j)) =>
                  /\ outcome \in {"running", "returned"}
                  /\ j < Len(calls) => calls[j + 1].op = "POST"
            /\ Outage(j) => outcome = failure.error
            /\ (~Missing(j) /\ ~Outage(j) /\ j < Len(calls)) => calls[j + 1].op = "PUT"

\* C18: every update call carries the identifier and the title of the target
\* item fetched in the same step (the fetch just before it), the version number
\* that fetch read, unchanged, and the body of the source page fetched in that
\* step (the fetch before that).
C18_UpdateCarriesWhatWasRead ==
    \A j \in CallsOf("PUT") :
        /\ j >= 3
        /\ calls[j - 2].op = "GET" /\ calls[j - 1].op = "GET"
        /\ calls[j].id = calls[j - 1].id
        /\ calls[j].title = calls[j - 1].title
        /\ calls[j].version = calls[j - 1].version
        /\ calls[j].body = calls[j - 2].body

\* the update of a page below the target root, whose version is not 1, with the
\* body of a page below the source root
C18_Witness ==
    /\ outcome = "returned"
    /\ \E j \in CallsOf("PUT") :
          /\ calls[j].version >= 2
          /\ calls[j].id # args.target.id
          /\ calls[j].body \in SourcePages \ {args.source.id}

\* C19: once a remote call of a copyPage has failed, at any depth of the
\* recursion, the failed call stays the last remote call, the error raised for
\* it is what the top-level call ends with, and the remote's content is what it
\* was at the failure: the pages updated before keep the bodies they were given.
C19_FailureAborts ==
    /\ failure.at # 0 =>
          /\ Len(calls) = failure.at
          /\ outcome = failure.error
          /\ stack = <<>>
          /\ content = failure.content
          /\ \A j \in CallsOf("PUT") :
                j < failure.at => content[calls[j].id].body = calls[j].body
    /\ outcome \in RemoteErrors => failure.at # 0

\* the update of a page below the target root fails, after the root's update
C19_Witness ==
    /\ failure.at >= 6
    /\ outcome = "StandardError"
    /\ calls[failure.at].op = "PUT"
    /\ \E j \in CallsOf("PUT") :
          /\ j < failure.at
          /\ calls[j].id = args.target.id
          /\ content[calls[j].id].body = args.source.id

\* the children of the target page t whose title no child of the source page s has
OrphansOf(s, t) ==
    {c \in getChildren(t) : content[c].title \notin TitlesOf(getChildren(s))}

\* C20 as stated: with recursive=true and delete requested, a copyPage that
\* returns without error has pruned at every level it visited: for every source
\* page and its counterpart in the target, at any depth, each child of the
\* counterpart whose title no child of the source page has received exactly
\* one delete call.
C20_PrunesEveryLevel ==
    (/\ outcome = "returned" /\ args.target.kind = "id"
     /\ args.recursive /\ args.delete /\ WellFormed /\ Mirror) =>
        \A s \in SourcePages :
            \A c \in OrphansOf(s, Mate(s)) :
                Cardinality({j \in CallsOf("DELETE") : calls[j].id = c}) = 1

\* the create and update calls made with the body of the source page s
VisitsOf(s) == {j \in Puts : calls[j].body = content[s].body}

\* C22 as stated: on a finite source tree with unique sibling titles, with the
\* remote in order throughout and nothing to prune, a recursive copyPage onto an
\* existing target page has, when it has ended, returned without error and
\* visited every source page exactly once: one create or update call per source
\* page, never both and never none.
C22_VisitsEveryPageOnce ==
    (/\ SyncDone /\ args.target.kind = "id" /\ args.recursive /\ ~args.delete
     /\ WellFormed /\ ~failure.injected) =>
        /\ outcome = "returned"
        /\ \A s \in SourcePages : Cardinality(VisitsOf(s)) = 1

(***************************************************************************)
(* Claims about a second copyPage, checked under SpecResync.               *)
(***************************************************************************)

\* the remote calls of the first and of the second copyPage
FirstRun  == {j \in DOMAIN calls : j <= first.ncalls}
SecondRun == {j \in DOMAIN calls : j > first.ncalls}

====
